---- MODULE Spec2Model ----
(***************************************************************************)
(* Meeting-room booking backend (miftah_backend).                          *)
(*                                                                         *)
(* The model has three layers:                                             *)
(*   - ValidationUtils: the pure checks (validateFutureDate,               *)
(*     validateWorkingHours) and the store-backed checks                   *)
(*     (validateRoomCapacity, validateRoomAvailability), translated from   *)
(*     src/README.md lines 43-291 (the file holds validationUtils.ts);     *)
(*   - the store: the bookings and booking_consumptions tables with        *)
(*     PostgreSQL READ COMMITTED transactions (writes of an open           *)
(*     transaction are private until commit);                              *)
(*   - BookingController: createBooking, updateBooking and deleteBooking   *)
(*     as one action per await of the handler.                             *)
(*                                                                         *)
(* Strings that the code compares or parses character by character (the    *)
(* time strings) are sequences of character codes: "0".."9" are 48..57 and *)
(* ":" is 58, so that JavaScript's string order is the lexicographic order *)
(* of the sequences. Instants are minutes since 1970-01-01T00:00Z.         *)
(***************************************************************************)
EXTENDS Integers, Sequences, FiniteSets, TLC

VARIABLES
  tz,        \* the server's local time-zone offset, minutes east of UTC
  now,       \* the current instant (what new Date() returns)
  arg,       \* validation harness: [meetingDate, startTime, endTime]
  ret,       \* validation harness: the ValidationResult returned, or NoResult
  bookings,  \* committed rows of table bookings: id -> row
  assocs,    \* committed rows of table booking_consumptions: <<booking_id, consumption_id>>
  nextId,    \* the next value of the bookings id sequence (autoIncrement)
  pc,        \* per request slot: the await the handler is suspended at
  op,        \* per request slot: the handler that is running
  body,      \* per request slot: req.params.id and req.body
  existing,  \* per request slot: existingBooking as findByPk returned it
  results,   \* per request slot: what validateBooking returned
  tx,        \* per request slot: the state of the handler's transaction
  wset,      \* per request slot: the uncommitted writes of the transaction
  resp       \* per request slot: the response sent

envVars == <<tz, now>>
valVars == <<arg, ret>>
storeVars == <<bookings, assocs, nextId>>
reqVars == <<pc, op, body, existing, results, tx, wset, resp>>
vars == <<tz, now, arg, ret, bookings, assocs, nextId, pc, op, body, existing, results, tx, wset, resp>>

(***************************************************************************)
(* Character strings.                                                      *)
(***************************************************************************)
\* The two decimal digits of n, zero padded.
Pad2(n) == <<48 + (n \div 10), 48 + (n % 10)>>

\* "HH:MM"
HHMM(h, m) == Pad2(h) \o <<58>> \o Pad2(m)

\* "H:MM" (hour without the leading zero)
HMM(h, m) == <<48 + h>> \o <<58>> \o Pad2(m)

\* "HH:MM:SS"
HHMMSS(h, m, s) == HHMM(h, m) \o <<58>> \o Pad2(s)

IsDigit(c) == c >= 48 /\ c <= 57

\* JavaScript a < b on strings: lexicographic on the code units, a proper
\* prefix being smaller.
RECURSIVE StrLess(_, _)
StrLess(a, b) ==
  IF b = <<>> THEN FALSE
  ELSE IF a = <<>> THEN TRUE
  ELSE IF Head(a) # Head(b) THEN Head(a) < Head(b)
  ELSE StrLess(Tail(a), Tail(b))

StrGreater(a, b) == StrLess(b, a)
StrGreaterEq(a, b) == ~StrLess(a, b)

\* String.prototype.split(':'): the pieces between the colons.
RECURSIVE SplitColon(_)
SplitColon(s) ==
  IF \A i \in 1..Len(s) : s[i] # 58 THEN <<s>>
  ELSE LET p == CHOOSE i \in 1..Len(s) : s[i] = 58 /\ \A j \in 1..(i-1) : s[j] # 58
       IN <<SubSeq(s, 1, p - 1)>> \o SplitColon(SubSeq(s, p + 1, Len(s)))

\* Number(s) for a string of decimal digits ("" is 0).
RECURSIVE Number(_)
Number(s) ==
  IF s = <<>> THEN 0
  ELSE 10 * Number(SubSeq(s, 1, Len(s) - 1)) + (s[Len(s)] - 48)

(***************************************************************************)
(* Dates. A date string YYYY-MM-DD is the triple <<y, m, d>>.              *)
(***************************************************************************)
MinutesPerDay == 24 * 60

\* Days from 1970-01-01 to the civil date y-m-d (proleptic Gregorian), as
\* Date.UTC computes it.
DaysFromCivil(y, m, d) ==
  LET yy  == IF m <= 2 THEN y - 1 ELSE y
      era == yy \div 400
      yoe == yy - era * 400
      mp  == IF m > 2 THEN m - 3 ELSE m + 9
      doy == ((153 * mp + 2) \div 5) + d - 1
      doe == yoe * 365 + (yoe \div 4) - (yoe \div 100) + doy
  IN era * 146097 + doe - 719468

\* new Date("YYYY-MM-DD"): a date-only ISO string is UTC midnight of that day.
DateParse(ds) == DaysFromCivil(ds[1], ds[2], ds[3]) * MinutesPerDay

\* The local calendar day (days since 1970-01-01) an instant falls on.
LocalDay(t, off) == (t + off) \div MinutesPerDay

\* Date.prototype.getDay(): the local day of the week, 0 = Sunday.
\* 1970-01-01 was a Thursday.
getDay(t, off) == (LocalDay(t, off) + 4) % 7

\* Date.prototype.setHours(0, 0, 0, 0): local midnight of the instant's local day.
setHoursZero(t, off) == LocalDay(t, off) * MinutesPerDay - off

(***************************************************************************)
(* ValidationResult                                                        *)
(***************************************************************************)
Valid == [isValid |-> TRUE, code |-> "none"]
Invalid(c) == [isValid |-> FALSE, code |-> c]
NoResult == [isValid |-> FALSE, code |-> "pending"]

(***************************************************************************)
(* ValidationUtils.WORKING_HOURS                                           *)
(***************************************************************************)
WORKING_HOURS_START == HHMM(8, 0)
WORKING_HOURS_END == HHMM(18, 0)
WORKING_DAYS == {1, 2, 3, 4, 5}

(***************************************************************************)
(* ValidationUtils.validateFutureDate                                      *)
(***************************************************************************)
validateFutureDate(meetingDate, nowT, off) ==
  LET today == setHoursZero(nowT, off)
      bookingDate == setHoursZero(DateParse(meetingDate), off)
  IN IF bookingDate < today THEN Invalid("INVALID_DATE_PAST") ELSE Valid

(***************************************************************************)
(* ValidationUtils.validateWorkingHours                                    *)
(***************************************************************************)
\* /^([01]?[0-9]|2[0-3]):[0-5][0-9]$/
timeRegexTest(s) ==
  LET minutesOk(i) == /\ s[i] = 58
                      /\ s[i+1] >= 48 /\ s[i+1] <= 53
                      /\ IsDigit(s[i+2])
  IN \/ /\ Len(s) = 4
        /\ IsDigit(s[1])
        /\ minutesOk(2)
     \/ /\ Len(s) = 5
        /\ \/ (s[1] \in {48, 49} /\ IsDigit(s[2]))
           \/ (s[1] = 50 /\ s[2] >= 48 /\ s[2] <= 51)
        /\ minutesOk(3)

timeToMinutes(timeString) ==
  LET parts == SplitColon(timeString)
  IN Number(parts[1]) * 60 + Number(parts[2])

\* !this.WORKING_HOURS.WORKING_DAYS.includes(bookingDate.getDay())
notWorkingDay(meetingDate, off) ==
  getDay(DateParse(meetingDate), off) \notin WORKING_DAYS

\* !timeRegex.test(startTime) || !timeRegex.test(endTime)
badTimeFormat(startTime, endTime) ==
  ~timeRegexTest(startTime) \/ ~timeRegexTest(endTime)

\* The window with its two ends excluded (<= and >= for < and >).
outsideWorkingHours_exclusive(startTime, endTime) ==
  ~StrGreater(startTime, WORKING_HOURS_START) \/ ~StrLess(endTime, WORKING_HOURS_END)

\* startTime < this.WORKING_HOURS.START || endTime > this.WORKING_HOURS.END
outsideWorkingHours(startTime, endTime) ==
  StrLess(startTime, WORKING_HOURS_START) \/ StrGreater(endTime, WORKING_HOURS_END)

\* durationMinutes < 30
tooShort(durationMinutes) == durationMinutes < 30

\* The longest duration off by one (>= for >).
tooLong_at480(durationMinutes) == durationMinutes >= 480

\* durationMinutes > 480
tooLong(durationMinutes) == durationMinutes > 480

validateWorkingHours(meetingDate, startTime, endTime, off) ==
  LET durationMinutes == timeToMinutes(endTime) - timeToMinutes(startTime)
  IN IF notWorkingDay(meetingDate, off) THEN Invalid("INVALID_WORKING_DAY")
     ELSE IF badTimeFormat(startTime, endTime) THEN Invalid("INVALID_TIME_FORMAT")
     ELSE IF outsideWorkingHours(startTime, endTime) THEN Invalid("OUTSIDE_WORKING_HOURS")
     ELSE IF StrGreaterEq(startTime, endTime) THEN Invalid("INVALID_TIME_ORDER")
     ELSE IF tooShort(durationMinutes) THEN Invalid("INVALID_DURATION_TOO_SHORT")
     ELSE IF tooLong(durationMinutes) THEN Invalid("INVALID_DURATION_TOO_LONG")
     ELSE Valid

(***************************************************************************)
(* The store.                                                              *)
(***************************************************************************)
\* An optional value (a field a request may not carry, the row a query may
\* not find) is a sequence of at most one element: Absent is undefined or
\* null, Some(v) is the value v.
Absent == <<>>
Some(v) == <<v>>

\* Table meeting_rooms: id -> row (two active rooms and an inactive one, of
\* small capacities). The handlers never write it.
MeetingRoom ==
  (1 :> [capacity |-> 2, is_active |-> TRUE]) @@
  (2 :> [capacity |-> 1, is_active |-> TRUE]) @@
  (3 :> [capacity |-> 2, is_active |-> FALSE])

\* MeetingRoom.findByPk(roomId)
MeetingRoom_findByPk(roomId) ==
  IF roomId \in DOMAIN MeetingRoom THEN Some(MeetingRoom[roomId]) ELSE Absent

\* Column type TIME, input: PostgreSQL reads 'H:MM', 'HH:MM' and 'HH:MM:SS' as
\* a time of day, here in minutes (every time in the model has 0 seconds).
PgTimeIn(str) ==
  LET parts == SplitColon(str)
  IN Number(parts[1]) * 60 + Number(parts[2])

\* Column type TIME, output: a stored time is read back as 'HH:MM:SS'.
PgTimeOut(t) == HHMMSS(t \div 60, t % 60, 0)

\* A row of table bookings as a query returns it (Booking instance).
BookingInstance(id) ==
  [id |-> id,
   unit_id |-> bookings[id].unit_id,
   meeting_room_id |-> bookings[id].meeting_room_id,
   meeting_date |-> bookings[id].meeting_date,
   start_time |-> PgTimeOut(bookings[id].start_time),
   end_time |-> PgTimeOut(bookings[id].end_time),
   total_participants |-> bookings[id].total_participants]

\* Booking.findByPk(id), outside the handler's transaction: committed rows only.
Booking_findByPk(id) ==
  IF id \in DOMAIN bookings THEN Some(BookingInstance(id)) ELSE Absent

\* if (excludeBookingId): JavaScript truthiness of an optional number.
Truthy(v) == v # Absent /\ v[1] # 0

\* The overlap test that only looks for a row in progress at startTime.
whereCondition_startOnly(id, roomId, meetingDate, startTime, endTime, excludeBookingId) ==
  /\ bookings[id].meeting_room_id = roomId
  /\ bookings[id].meeting_date = meetingDate
  /\ bookings[id].start_time <= PgTimeIn(startTime)
  /\ bookings[id].end_time > PgTimeIn(startTime)
  /\ (Truthy(excludeBookingId) => id # excludeBookingId[1])

\* The overlap test on closed intervals (Op.lte and Op.gte for Op.lt and Op.gt).
whereCondition_closed(id, roomId, meetingDate, startTime, endTime, excludeBookingId) ==
  /\ bookings[id].meeting_room_id = roomId
  /\ bookings[id].meeting_date = meetingDate
  /\ bookings[id].start_time <= PgTimeIn(endTime)
  /\ bookings[id].end_time >= PgTimeIn(startTime)
  /\ (Truthy(excludeBookingId) => id # excludeBookingId[1])

\* The where-condition of validateRoomAvailability on one committed row.
whereCondition(id, roomId, meetingDate, startTime, endTime, excludeBookingId) ==
  /\ bookings[id].meeting_room_id = roomId
  /\ bookings[id].meeting_date = meetingDate
  /\ bookings[id].start_time < PgTimeIn(endTime)
  /\ bookings[id].end_time > PgTimeIn(startTime)
  /\ (Truthy(excludeBookingId) => id # excludeBookingId[1])

(***************************************************************************)
(* ValidationUtils, the store-backed checks. roomFault and availFault say  *)
(* whether the store query of the check fails (rejects).                   *)
(***************************************************************************)
\* What an async check that lets a rejection escape returns.
Thrown == [isValid |-> FALSE, code |-> "THROWN"]

\* validateRoomCapacity without its try/catch: a rejected lookup escapes.
validateRoomCapacity_noCatch(roomId, participants, roomFault) ==
  IF roomFault THEN Thrown
  ELSE LET room == MeetingRoom_findByPk(roomId)
       IN IF room = Absent THEN Invalid("ROOM_NOT_FOUND")
          ELSE IF ~room[1].is_active THEN Invalid("ROOM_INACTIVE")
          ELSE IF participants > room[1].capacity THEN Invalid("CAPACITY_EXCEEDED")
          ELSE IF participants < 1 THEN Invalid("INVALID_PARTICIPANTS_COUNT")
          ELSE Valid

\* validateRoomCapacity with the capacity itself refused (>= for >).
validateRoomCapacity_atCapacity(roomId, participants, roomFault) ==
  IF roomFault THEN Invalid("VALIDATION_ERROR")
  ELSE LET room == MeetingRoom_findByPk(roomId)
       IN IF room = Absent THEN Invalid("ROOM_NOT_FOUND")
          ELSE IF ~room[1].is_active THEN Invalid("ROOM_INACTIVE")
          ELSE IF participants >= room[1].capacity THEN Invalid("CAPACITY_EXCEEDED")
          ELSE IF participants < 1 THEN Invalid("INVALID_PARTICIPANTS_COUNT")
          ELSE Valid

validateRoomCapacity(roomId, participants, roomFault) ==
  IF roomFault THEN Invalid("VALIDATION_ERROR")
  ELSE LET room == MeetingRoom_findByPk(roomId)
       IN IF room = Absent THEN Invalid("ROOM_NOT_FOUND")
          ELSE IF ~room[1].is_active THEN Invalid("ROOM_INACTIVE")
          ELSE IF participants > room[1].capacity THEN Invalid("CAPACITY_EXCEEDED")
          ELSE IF participants < 1 THEN Invalid("INVALID_PARTICIPANTS_COUNT")
          ELSE Valid

validateRoomAvailability(roomId, meetingDate, startTime, endTime, excludeBookingId, availFault) ==
  IF availFault THEN Invalid("VALIDATION_ERROR")
  ELSE IF \E id \in DOMAIN bookings :
            whereCondition(id, roomId, meetingDate, startTime, endTime, excludeBookingId)
       THEN Invalid("TIME_CONFLICT")
       ELSE Valid

\* Promise.all over the four checks: the four results in order, or the
\* rejection of the first check that rejects.
validateBooking(roomId, meetingDate, startTime, endTime, participants, excludeBookingId, roomFault, availFault) ==
  LET validations ==
        << validateFutureDate(meetingDate, now, tz),
           validateWorkingHours(meetingDate, startTime, endTime, tz),
           validateRoomCapacity(roomId, participants, roomFault),
           validateRoomAvailability(roomId, meetingDate, startTime, endTime,
                                    excludeBookingId, availFault) >>
  IN IF \E i \in 1..4 : validations[i] = Thrown THEN <<Thrown>> ELSE validations

(***************************************************************************)
(* BookingController: requests, responses, transactions.                   *)
(***************************************************************************)
\* The request slots: each runs one handler at a time; different slots
\* interleave at the awaits of their handlers.
Reqs == {1, 2}

\* Table consumptions: the seeded ids.
ConsumptionIds == 1..5

NoBody ==
  [id |-> Absent, unit_id |-> Absent, meeting_room_id |-> Absent,
   meeting_date |-> Absent, start_time |-> Absent, end_time |-> Absent,
   total_participants |-> Absent, consumption_ids |-> Absent]

\* The writes a transaction has made and not committed: the booking row it
\* inserted or updated (row), or deleted (deleted), the association rows of
\* the booking it deleted (unlink) and the consumption ids of the association
\* rows it inserted (link).
NoWrites ==
  [id |-> Absent, row |-> Absent, deleted |-> FALSE, unlink |-> {}, link |-> {}]

NoResponse == [status |-> 0, code |-> "none", validationErrors |-> <<>>]

\* res.status(status).json({success, code, validationErrors})
Json(status, code, validationErrors) ==
  [status |-> status, code |-> code, validationErrors |-> validationErrors]

\* !value for an optional number / an optional string
FalsyNumber(v) == v = Absent \/ v[1] = 0
FalsyString(v) == v = Absent \/ v[1] = <<>>

\* requiredFields.filter(field => !bookingData[field])
missingFields(b) ==
  {f \in {"unit_id", "meeting_room_id", "total_participants"} : FalsyNumber(b[f])}
  \cup {f \in {"start_time", "end_time"} : FalsyString(b[f])}
  \cup {f \in {"meeting_date"} : b[f] = Absent}

\* validationResults.filter(result => !result.isValid)
failedValidations(validationResults) ==
  SelectSeq(validationResults, LAMBDA v : ~v.isValid)

Codes(vs) == [i \in 1..Len(vs) |-> vs[i].code]

\* a ?? b
Nullish(a, b) == IF a # Absent THEN a[1] ELSE b

\* The committed tables after the writes w of a transaction are applied.
CommitBookings(w) ==
  IF w.id = Absent THEN bookings
  ELSE LET id == w.id[1]
       IN IF w.deleted THEN [i \in DOMAIN bookings \ {id} |-> bookings[i]]
          ELSE IF w.row = Absent THEN bookings
          ELSE [i \in DOMAIN bookings \cup {id} |-> IF i = id THEN w.row[1] ELSE bookings[i]]

CommitAssocs(w) ==
  IF w.id = Absent THEN assocs
  ELSE LET id == w.id[1]
       IN (assocs \ w.unlink) \cup {<<id, c>> : c \in w.link}

\* A row an open transaction has written is locked until that transaction ends.
RowLocked(r, id) ==
  \E q \in Reqs \ {r} : tx[q] = "open" /\ wset[q].id = Some(id) /\
                        (wset[q].row # Absent \/ wset[q].deleted)

\* bulkCreate at (booking_id, consumption_id) violates the unique index or
\* the foreign key to consumptions.
BulkCreateRejects(ids) ==
  \/ \E i, j \in 1..Len(ids) : i # j /\ ids[i] = ids[j]
  \/ \E i \in 1..Len(ids) : ids[i] \notin ConsumptionIds

\* The committed association rows of a booking.
AssocsOf(id) == {a \in assocs : a[1] = id}

Range(q) == {q[i] : i \in 1..Len(q)}

\* The handler returns: the response is sent, the locals of the call are
\* gone and the slot is free for the next request.
Return(r, response) ==
  /\ pc' = [pc EXCEPT ![r] = "idle"]
  /\ resp' = [resp EXCEPT ![r] = response]
  /\ body' = [body EXCEPT ![r] = NoBody]
  /\ existing' = [existing EXCEPT ![r] = Absent]

\* The handler goes on to its next await.
Goto(r, label) ==
  /\ pc' = [pc EXCEPT ![r] = label]
  /\ UNCHANGED <<resp, body>>

\* catch (error) { await transaction.rollback(); res.status(500).json(...) }
\* A transaction that is already finished rejects the rollback, and the
\* handler's promise rejects: the router either leaves the rejection
\* unhandled and the request without a response (Express 4) or passes it to
\* the error-handling middleware of index.ts, which answers 500 (Express 5).
Catch(r) ==
  IF tx[r] = "open"
  THEN /\ tx' = [tx EXCEPT ![r] = "rollback"]
       /\ wset' = [wset EXCEPT ![r] = NoWrites]
       /\ Return(r, Json(500, "INTERNAL_ERROR", <<>>))
  ELSE \/ /\ pc' = [pc EXCEPT ![r] = "unhandled"]
          /\ body' = [body EXCEPT ![r] = NoBody]
          /\ existing' = [existing EXCEPT ![r] = Absent]
          /\ UNCHANGED <<tx, wset, resp>>
       \/ /\ Return(r, Json(500, "INTERNAL_ERROR", <<>>))
          /\ UNCHANGED <<tx, wset>>

\* const transaction = await Booking.sequelize!.transaction()
Open(r, handler, b) ==
  /\ pc[r] = "idle"
  /\ pc' = [pc EXCEPT ![r] = "open"]
  /\ op' = [op EXCEPT ![r] = handler]
  /\ body' = [body EXCEPT ![r] = b]
  /\ results' = [results EXCEPT ![r] = <<>>]
  /\ tx' = [tx EXCEPT ![r] = "open"]
  /\ resp' = [resp EXCEPT ![r] = NoResponse]
  /\ UNCHANGED <<envVars, valVars, storeVars, existing, wset>>

\* if (failedValidations.length > 0) return res.status(400).json(...)
\* (the validation results are in results'[r]); a rejected validateBooking
\* goes to the catch block.
AfterValidation(r, validationResults) ==
  /\ results' = [results EXCEPT ![r] = validationResults]
  /\ IF validationResults = <<Thrown>>
     THEN Catch(r)
     ELSE LET failed == failedValidations(validationResults)
          IN IF failed # <<>>
             THEN /\ Return(r, Json(400, failed[1].code, Codes(failed)))
                  /\ UNCHANGED <<tx, wset>>
             ELSE /\ Goto(r, "validated")
                  /\ UNCHANGED <<tx, wset, existing>>

\* await transaction.commit()
Commit(r, fault) ==
  IF fault
  THEN /\ Catch(r)
       /\ UNCHANGED storeVars
  ELSE /\ bookings' = CommitBookings(wset[r])
       /\ assocs' = CommitAssocs(wset[r])
       /\ tx' = [tx EXCEPT ![r] = "commit"]
       /\ wset' = [wset EXCEPT ![r] = NoWrites]
       /\ Goto(r, "committed")
       /\ UNCHANGED <<nextId, existing>>

(***************************************************************************)
(* BookingController.createBooking                                         *)
(***************************************************************************)
\* The ids the sequence hands out are capped: a create is accepted while
\* every create in flight can still get an id <= MaxBookings.
MaxBookings == 2

CreatesInFlight ==
  Cardinality({q \in Reqs : op[q] = "createBooking" /\ pc[q] \in {"open", "validated"}})

createBooking_open(r, b) ==
  /\ nextId + CreatesInFlight <= MaxBookings
  /\ Open(r, "createBooking", b)

createBooking_validate(r, roomFault, availFault) ==
  /\ pc[r] = "open" /\ op[r] = "createBooking"
  /\ IF missingFields(body[r]) # {}
     THEN /\ Return(r, Json(400, "MISSING_REQUIRED_FIELDS", <<>>))
          /\ UNCHANGED <<results, tx, wset>>
     ELSE AfterValidation(r,
            validateBooking(body[r].meeting_room_id[1], body[r].meeting_date[1],
                            body[r].start_time[1], body[r].end_time[1],
                            body[r].total_participants[1], Absent,
                            roomFault, availFault))
  /\ UNCHANGED <<envVars, valVars, storeVars, op>>

\* Booking.create({...}, { transaction })
createBooking_create(r, fault) ==
  /\ pc[r] = "validated" /\ op[r] = "createBooking"
  /\ IF fault
     THEN /\ Catch(r)
          /\ UNCHANGED nextId
     ELSE /\ wset' = [wset EXCEPT ![r] =
                [NoWrites EXCEPT
                   !.id = Some(nextId),
                   !.row = Some([unit_id |-> body[r].unit_id[1],
                                 meeting_room_id |-> body[r].meeting_room_id[1],
                                 meeting_date |-> body[r].meeting_date[1],
                                 start_time |-> PgTimeIn(body[r].start_time[1]),
                                 end_time |-> PgTimeIn(body[r].end_time[1]),
                                 total_participants |-> body[r].total_participants[1]])]]
          /\ nextId' = nextId + 1
          /\ Goto(r, IF body[r].consumption_ids # Absent /\ Len(body[r].consumption_ids[1]) > 0
                     THEN "written" ELSE "linked")
          /\ UNCHANGED <<tx, existing>>
  /\ UNCHANGED <<envVars, valVars, bookings, assocs, op, results>>

\* BookingConsumption.bulkCreate(consumptionData, { transaction })
createBooking_bulkCreate(r, fault) ==
  /\ pc[r] = "written" /\ op[r] = "createBooking"
  /\ IF fault \/ BulkCreateRejects(body[r].consumption_ids[1])
     THEN Catch(r)
     ELSE /\ wset' = [wset EXCEPT ![r].link = Range(body[r].consumption_ids[1])]
          /\ Goto(r, "linked")
          /\ UNCHANGED <<tx, existing>>
  /\ UNCHANGED <<envVars, valVars, storeVars, op, results>>

createBooking_commit(r, fault) ==
  /\ pc[r] = "linked" /\ op[r] = "createBooking"
  /\ Commit(r, fault)
  /\ UNCHANGED <<envVars, valVars, op, results>>

\* Booking.findByPk(booking.id, {include}) and res.status(201).json(...)
createBooking_respond(r, fault) ==
  /\ pc[r] = "committed" /\ op[r] = "createBooking"
  /\ IF fault THEN Catch(r)
     ELSE /\ Return(r, Json(201, "none", <<>>))
          /\ UNCHANGED <<tx, wset>>
  /\ UNCHANGED <<envVars, valVars, storeVars, op, results>>

(***************************************************************************)
(* BookingController.updateBooking                                         *)
(***************************************************************************)
updateBooking_open(r, b) == Open(r, "updateBooking", b)

\* const existingBooking = await Booking.findByPk(bookingId)
updateBooking_find(r, fault) ==
  /\ pc[r] = "open" /\ op[r] = "updateBooking"
  /\ IF fault
     THEN Catch(r)
     ELSE LET existingBooking == Booking_findByPk(body[r].id[1])
          IN IF existingBooking = Absent
             THEN /\ Return(r, Json(404, "BOOKING_NOT_FOUND", <<>>))
                  /\ UNCHANGED <<tx, wset>>
             ELSE /\ existing' = [existing EXCEPT ![r] = existingBooking]
                  /\ Goto(r, "found")
                  /\ UNCHANGED <<tx, wset>>
  /\ UNCHANGED <<envVars, valVars, storeVars, op, results>>

\* The values validated and written: the provided fields over the existing ones.
Merged(updateData, existingBooking) ==
  [unit_id |-> Nullish(updateData.unit_id, existingBooking.unit_id),
   meeting_room_id |-> Nullish(updateData.meeting_room_id, existingBooking.meeting_room_id),
   meeting_date |-> Nullish(updateData.meeting_date, existingBooking.meeting_date),
   start_time |-> Nullish(updateData.start_time, existingBooking.start_time),
   end_time |-> Nullish(updateData.end_time, existingBooking.end_time),
   total_participants |-> Nullish(updateData.total_participants, existingBooking.total_participants)]

updateBooking_validate(r, roomFault, availFault) ==
  /\ pc[r] = "found" /\ op[r] = "updateBooking"
  /\ LET m == Merged(body[r], existing[r][1])
     IN AfterValidation(r,
          validateBooking(m.meeting_room_id, m.meeting_date, m.start_time, m.end_time,
                          m.total_participants, body[r].id, roomFault, availFault))
  /\ UNCHANGED <<envVars, valVars, storeVars, op>>

\* existingBooking.update({...}, { transaction }); the UPDATE waits for the
\* row's lock and changes no row when the booking is gone.
updateBooking_update(r, fault) ==
  /\ pc[r] = "validated" /\ op[r] = "updateBooking"
  /\ ~RowLocked(r, body[r].id[1])
  /\ IF fault
     THEN Catch(r)
     ELSE LET m == Merged(body[r], existing[r][1])
          IN /\ wset' = [wset EXCEPT ![r] =
                   [NoWrites EXCEPT
                      !.id = body[r].id,
                      !.row = IF body[r].id[1] \in DOMAIN bookings
                              THEN Some([m EXCEPT !.start_time = PgTimeIn(m.start_time),
                                                   !.end_time = PgTimeIn(m.end_time)])
                              ELSE Absent]]
             /\ Goto(r, IF body[r].consumption_ids # Absent THEN "written" ELSE "linked")
             /\ UNCHANGED <<tx, existing>>
  /\ UNCHANGED <<envVars, valVars, storeVars, op, results>>

\* BookingConsumption.destroy({ where: { booking_id }, transaction }) and, for
\* a non-empty list, BookingConsumption.bulkCreate(consumptionData, { transaction });
\* an association row of a booking that is gone violates the foreign key.
\* The consumption step without the destroy: the new rows are added to the old.
updateBooking_consumptions_noDestroy(r, fault) ==
  /\ pc[r] = "written" /\ op[r] = "updateBooking"
  /\ IF \/ fault
        \/ BulkCreateRejects(body[r].consumption_ids[1])
        \/ (wset[r].row = Absent /\ Len(body[r].consumption_ids[1]) > 0)
     THEN Catch(r)
     ELSE /\ wset' = [wset EXCEPT ![r].link = Range(body[r].consumption_ids[1])]
          /\ Goto(r, "linked")
          /\ UNCHANGED <<tx, existing>>
  /\ UNCHANGED <<envVars, valVars, storeVars, op, results>>

updateBooking_consumptions(r, fault) ==
  /\ pc[r] = "written" /\ op[r] = "updateBooking"
  /\ IF \/ fault
        \/ BulkCreateRejects(body[r].consumption_ids[1])
        \/ (wset[r].row = Absent /\ Len(body[r].consumption_ids[1]) > 0)
     THEN Catch(r)
     ELSE /\ wset' = [wset EXCEPT ![r].unlink = AssocsOf(body[r].id[1]),
                                  ![r].link = Range(body[r].consumption_ids[1])]
          /\ Goto(r, "linked")
          /\ UNCHANGED <<tx, existing>>
  /\ UNCHANGED <<envVars, valVars, storeVars, op, results>>

updateBooking_commit(r, fault) ==
  /\ pc[r] = "linked" /\ op[r] = "updateBooking"
  /\ Commit(r, fault)
  /\ UNCHANGED <<envVars, valVars, op, results>>

\* Booking.findByPk(bookingId, {include}) and res.json(...)
updateBooking_respond(r, fault) ==
  /\ pc[r] = "committed" /\ op[r] = "updateBooking"
  /\ IF fault THEN Catch(r)
     ELSE /\ Return(r, Json(200, "none", <<>>))
          /\ UNCHANGED <<tx, wset>>
  /\ UNCHANGED <<envVars, valVars, storeVars, op, results>>

(***************************************************************************)
(* BookingController.deleteBooking                                         *)
(***************************************************************************)
deleteBooking_open(r, b) == Open(r, "deleteBooking", b)

\* new Date(`${meeting_date} ${start_time}`): a date and a time without an
\* offset are local time.
\* The date and time read as UTC instead of local time.
bookingDateTime_utc(existingBooking) ==
  DateParse(existingBooking.meeting_date) + PgTimeIn(existingBooking.start_time)

bookingDateTime(existingBooking) ==
  DateParse(existingBooking.meeting_date) + PgTimeIn(existingBooking.start_time) - tz

\* findByPk, then the check that the booking has not started
deleteBooking_find(r, fault) ==
  /\ pc[r] = "open" /\ op[r] = "deleteBooking"
  /\ IF fault
     THEN Catch(r)
     ELSE LET existingBooking == Booking_findByPk(body[r].id[1])
          IN IF existingBooking = Absent
             THEN /\ Return(r, Json(404, "BOOKING_NOT_FOUND", <<>>))
                  /\ UNCHANGED <<tx, wset>>
             ELSE IF bookingDateTime(existingBooking[1]) < now
             THEN /\ Return(r, Json(400, "BOOKING_ALREADY_STARTED", <<>>))
                  /\ UNCHANGED <<tx, wset>>
             ELSE /\ existing' = [existing EXCEPT ![r] = existingBooking]
                  /\ Goto(r, "found")
                  /\ UNCHANGED <<tx, wset>>
  /\ UNCHANGED <<envVars, valVars, storeVars, op, results>>

\* BookingConsumption.destroy({ where: { booking_id }, transaction })
deleteBooking_destroyConsumptions(r, fault) ==
  /\ pc[r] = "found" /\ op[r] = "deleteBooking"
  /\ IF fault
     THEN Catch(r)
     ELSE /\ wset' = [wset EXCEPT ![r] =
                [NoWrites EXCEPT !.id = body[r].id, !.unlink = AssocsOf(body[r].id[1])]]
          /\ Goto(r, "written")
          /\ UNCHANGED <<tx, existing>>
  /\ UNCHANGED <<envVars, valVars, storeVars, op, results>>

\* existingBooking.destroy({ transaction }); an association row that still
\* refers to the booking violates the foreign key.
deleteBooking_destroy(r, fault) ==
  /\ pc[r] = "written" /\ op[r] = "deleteBooking"
  /\ ~RowLocked(r, body[r].id[1])
  /\ IF fault \/ AssocsOf(body[r].id[1]) \ wset[r].unlink # {}
     THEN Catch(r)
     ELSE /\ wset' = [wset EXCEPT ![r].deleted = TRUE]
          /\ Goto(r, "linked")
          /\ UNCHANGED <<tx, existing>>
  /\ UNCHANGED <<envVars, valVars, storeVars, op, results>>

\* transaction.commit() and res.json(...)
deleteBooking_commit(r, fault) ==
  /\ pc[r] = "linked" /\ op[r] = "deleteBooking"
  /\ IF fault
     THEN /\ Catch(r)
          /\ UNCHANGED storeVars
     ELSE /\ bookings' = CommitBookings(wset[r])
          /\ assocs' = CommitAssocs(wset[r])
          /\ tx' = [tx EXCEPT ![r] = "commit"]
          /\ wset' = [wset EXCEPT ![r] = NoWrites]
          /\ Return(r, Json(200, "none", <<>>))
          /\ UNCHANGED nextId
  /\ UNCHANGED <<envVars, valVars, op, results>>

(***************************************************************************)
(* BookingController.checkAvailability                                     *)
(***************************************************************************)
\* res.status(status).json({success, code, data})
ProbeJson(status, code, data) == [status |-> status, code |-> code, data |-> data]

\* !room_id || !date || !start_time || !end_time: a query parameter is a
\* string, missing or empty when falsy ("0" is truthy).
missingParameters(q) ==
  q.room_id = Absent \/ q.date = Absent \/ FalsyString(q.start_time) \/ FalsyString(q.end_time)

\* available = all checks passed, instead of the fourth.
checkAvailability_allChecks(q, roomFault, availFault) ==
  /\ arg' = [query |-> q, roomFault |-> roomFault, availFault |-> availFault]
  /\ ret' =
       IF missingParameters(q) THEN ProbeJson(400, "MISSING_PARAMETERS", Absent)
       ELSE LET validationResults ==
                  validateBooking(q.room_id[1], q.date[1], q.start_time[1], q.end_time[1],
                                  IF q.participants # Absent THEN q.participants[1] ELSE 1,
                                  Absent, roomFault, availFault)
            IN IF validationResults = <<Thrown>>
               THEN ProbeJson(500, "INTERNAL_ERROR", Absent)
               ELSE LET failed == failedValidations(validationResults)
                    IN ProbeJson(200, "none",
                         Some([available |-> failed = <<>>,
                               validationsPassed |-> failed = <<>>,
                               validationErrors |-> Codes(failed)]))
  /\ UNCHANGED <<envVars, storeVars, reqVars>>

\* The handler awaits validateBooking only, opens no transaction and writes
\* nothing; arg' keeps the query and whether the store queries failed, ret'
\* the response.
checkAvailability(q, roomFault, availFault) ==
  /\ arg' = [query |-> q, roomFault |-> roomFault, availFault |-> availFault]
  /\ ret' =
       IF missingParameters(q) THEN ProbeJson(400, "MISSING_PARAMETERS", Absent)
       ELSE LET validationResults ==
                  validateBooking(q.room_id[1], q.date[1], q.start_time[1], q.end_time[1],
                                  IF q.participants # Absent THEN q.participants[1] ELSE 1,
                                  Absent, roomFault, availFault)
            IN IF validationResults = <<Thrown>>
               THEN ProbeJson(500, "INTERNAL_ERROR", Absent)
               ELSE LET availabilityResult == validationResults[4]
                        failed == failedValidations(validationResults)
                    IN ProbeJson(200, "none",
                         Some([available |-> availabilityResult.isValid,
                               validationsPassed |-> failed = <<>>,
                               validationErrors |-> Codes(failed)]))
  /\ UNCHANGED <<envVars, storeVars, reqVars>>

(***************************************************************************)
(* The requests the specifications draw from.                              *)
(***************************************************************************)
\* The server's clock: Monday 2024-01-08, 12:00 local time.
Today == <<2024, 1, 8>>
Tomorrow == <<2024, 1, 9>>
LastFriday == <<2024, 1, 5>>
NextSaturday == <<2024, 1, 13>>
Jakarta == 7 * 60
Noon(ds, off) == DateParse(ds) + 12 * 60 - off

CreateBody(rm, d, st, en, p, cs) ==
  [NoBody EXCEPT !.unit_id = Some(1), !.meeting_room_id = Some(rm),
                 !.meeting_date = Some(d), !.start_time = Some(st),
                 !.end_time = Some(en), !.total_participants = Some(p),
                 !.consumption_ids = cs]

\* <<start_time, end_time>> pairs
ReqSlots ==
  { <<HHMM(9, 0), HHMM(10, 0)>>, <<HHMM(10, 0), HHMM(11, 0)>>,
    <<HHMM(9, 0), HHMM(10, 30)>>, <<HHMM(10, 0), HHMM(10, 15)>> }

\* Requests that differ in room and slot.
SlotCreateBodies ==
  { CreateBody(rm, Tomorrow, sl[1], sl[2], 1, Absent) : rm \in {1, 2}, sl \in ReqSlots }

\* Requests that fail a check, miss a field or carry consumption ids.
OtherCreateBodies ==
  { CreateBody(3, Tomorrow, HHMM(9, 0), HHMM(10, 0), 1, Absent),
    CreateBody(4, Tomorrow, HHMM(9, 0), HHMM(10, 0), 1, Absent),
    CreateBody(1, NextSaturday, HHMM(9, 0), HHMM(10, 0), 1, Absent),
    CreateBody(1, LastFriday, HHMM(9, 0), HHMM(10, 0), 1, Absent),
    CreateBody(1, Tomorrow, HHMM(9, 0), HHMM(10, 0), 0, Absent),
    CreateBody(1, Tomorrow, HHMM(9, 0), HHMM(10, 0), 3, Absent),
    CreateBody(1, Tomorrow, HHMM(9, 0), HHMM(10, 0), 1, Some(<<1, 2>>)),
    CreateBody(1, Tomorrow, HHMM(9, 0), HHMM(10, 0), 1, Some(<<1, 1>>)),
    CreateBody(1, Tomorrow, HMM(9, 0), HHMM(10, 0), 1, Absent),
    CreateBody(1, Tomorrow, HHMMSS(9, 0, 0), HHMMSS(10, 0, 0), 1, Absent),
    [CreateBody(1, Tomorrow, HHMM(9, 0), HHMM(10, 0), 1, Absent) EXCEPT !.meeting_date = Absent] }

CreateBodies == SlotCreateBodies \cup OtherCreateBodies

\* req.params.id of the update and delete requests: the ids the sequence
\* can hand out, and 0 (no booking has it).
ReqIds == 0..MaxBookings

UpdateBody(id, rm, d, st, en, cs) ==
  [NoBody EXCEPT !.id = Some(id), !.meeting_room_id = rm, !.meeting_date = d,
                 !.start_time = st, !.end_time = en, !.consumption_ids = cs]

SlotUpdateBodies ==
  { UpdateBody(id, rm, Absent, Some(sl[1]), Some(sl[2]), Absent) :
      id \in ReqIds, rm \in {Absent, Some(2)}, sl \in ReqSlots }

OtherUpdateBodies ==
  { UpdateBody(id, Absent, f[1], f[2], f[3], f[4]) :
      id \in ReqIds \ {0},
      f \in { <<Absent, Absent, Absent, Absent>>,
              <<Absent, Some(HHMM(9, 0)), Absent, Absent>>,
              <<Some(NextSaturday), Some(HHMM(9, 0)), Some(HHMM(10, 0)), Absent>>,
              <<Absent, Some(HHMM(9, 0)), Some(HHMM(10, 0)), Some(<<>>)>>,
              <<Absent, Some(HHMM(9, 0)), Some(HHMM(10, 0)), Some(<<3>>)>>,
              <<Absent, Some(HHMM(9, 0)), Some(HHMM(10, 0)), Some(<<2, 2>>)>> } }

UpdateBodies == SlotUpdateBodies \cup OtherUpdateBodies

DeleteBodies == { [NoBody EXCEPT !.id = Some(id)] : id \in ReqIds }

\* The requests of the specification of concurrent handlers: one room, one date.
RaceCreateBodies ==
  { CreateBody(1, Tomorrow, HHMM(9, 0), HHMM(10, 0), 1, Absent),
    CreateBody(1, Tomorrow, HHMM(9, 0), HHMM(10, 30), 1, Some(<<1>>)) }

RaceUpdateBodies ==
  { UpdateBody(id, Absent, Absent, Some(HHMM(10, 0)), Some(HHMM(11, 0)), cs) :
      id \in ReqIds \ {0}, cs \in {Absent, Some(<<2>>)} }

RaceDeleteBodies == { [NoBody EXCEPT !.id = Some(id)] : id \in ReqIds \ {0} }

(***************************************************************************)
(* Specifications.                                                         *)
(***************************************************************************)
NoArg == [meetingDate |-> Today, startTime |-> <<>>, endTime |-> <<>>]

\* The server starts with empty bookings tables and no request in flight.
ServerStart ==
  /\ bookings = <<>>
  /\ assocs = {}
  /\ nextId = 1
  /\ pc = [r \in Reqs |-> "idle"]
  /\ op = [r \in Reqs |-> "none"]
  /\ body = [r \in Reqs |-> NoBody]
  /\ existing = [r \in Reqs |-> Absent]
  /\ results = [r \in Reqs |-> <<>>]
  /\ tx = [r \in Reqs |-> "none"]
  /\ wset = [r \in Reqs |-> NoWrites]
  /\ resp = [r \in Reqs |-> NoResponse]

Init ==
  /\ tz = Jakarta
  /\ now = Noon(Today, Jakarta)
  /\ arg = NoArg
  /\ ret = NoResult
  /\ ServerStart

\* The steps of the handler running in slot r.
Step(r) ==
  \/ \E rf, af \in BOOLEAN : createBooking_validate(r, rf, af)
  \/ \E fault \in BOOLEAN : createBooking_create(r, fault)
  \/ \E fault \in BOOLEAN : createBooking_bulkCreate(r, fault)
  \/ \E fault \in BOOLEAN : createBooking_commit(r, fault)
  \/ \E fault \in BOOLEAN : createBooking_respond(r, fault)
  \/ \E fault \in BOOLEAN : updateBooking_find(r, fault)
  \/ \E rf, af \in BOOLEAN : updateBooking_validate(r, rf, af)
  \/ \E fault \in BOOLEAN : updateBooking_update(r, fault)
  \/ \E fault \in BOOLEAN : updateBooking_consumptions(r, fault)
  \/ \E fault \in BOOLEAN : updateBooking_commit(r, fault)
  \/ \E fault \in BOOLEAN : updateBooking_respond(r, fault)
  \/ \E fault \in BOOLEAN : deleteBooking_find(r, fault)
  \/ \E fault \in BOOLEAN : deleteBooking_destroyConsumptions(r, fault)
  \/ \E fault \in BOOLEAN : deleteBooking_destroy(r, fault)
  \/ \E fault \in BOOLEAN : deleteBooking_commit(r, fault)

\* Concurrent requests: the handlers of the slots interleave at their awaits.
Next ==
  \E r \in Reqs :
    \/ \E b \in RaceCreateBodies : createBooking_open(r, b)
    \/ \E b \in RaceUpdateBodies : updateBooking_open(r, b)
    \/ \E b \in RaceDeleteBodies : deleteBooking_open(r, b)
    \/ Step(r)

Spec == Init /\ [][Next]_vars

\* Requests one at a time: a single slot, whose next request is accepted when
\* the handler of the previous one has returned.
SeqNext ==
  \/ \E b \in CreateBodies : createBooking_open(1, b)
  \/ \E b \in UpdateBodies : updateBooking_open(1, b)
  \/ \E b \in DeleteBodies : deleteBooking_open(1, b)
  \/ Step(1)

SeqSpec == Init /\ [][SeqNext]_vars

\* Requests about consumption items and about bookings that have started:
\* one at a time, on room 1, with bookings of today (started at noon) and of
\* tomorrow, with and without consumption ids, and one before working hours.
AssocCreateBodies ==
  { CreateBody(1, Tomorrow, HHMM(9, 0), HHMM(10, 0), 1, Some(<<1, 2>>)),
    CreateBody(1, Tomorrow, HHMM(10, 0), HHMM(11, 0), 1, Absent),
    CreateBody(1, Today, HHMM(9, 0), HHMM(10, 0), 1, Some(<<1>>)),
    CreateBody(1, Tomorrow, HMM(0, 0), HMM(0, 30), 1, Absent),
    CreateBody(1, Tomorrow, HHMM(9, 0), HHMM(10, 0), 1, Some(<<1, 1>>)) }

AssocUpdateBodies ==
  { UpdateBody(id, Absent, Absent, Some(HHMM(h, 0)), Some(HHMM(h + 1, 0)), cs) :
      id \in ReqIds, h \in {9, 10},
      cs \in {Absent, Some(<<>>), Some(<<3>>), Some(<<2, 2>>)} }

AssocNext ==
  \/ \E b \in AssocCreateBodies : createBooking_open(1, b)
  \/ \E b \in AssocUpdateBodies : updateBooking_open(1, b)
  \/ \E b \in DeleteBodies : deleteBooking_open(1, b)
  \/ Step(1)

AssocSpec == Init /\ [][AssocNext]_vars

\* The availability probe between bookings of room 1 made one at a time:
\* queries for an active and a missing room, tomorrow and last Friday, free
\* and taken slots, a slot that is too short, with and without a participants
\* parameter, and a query without room_id.
Query(rm, d, st, en, p) ==
  [room_id |-> rm, date |-> d, start_time |-> st, end_time |-> en, participants |-> p]

ProbeQueries ==
  { Query(Some(rm), Some(d), Some(sl[1]), Some(sl[2]), p) :
      rm \in {1, 4}, d \in {Tomorrow, LastFriday},
      sl \in { <<HHMM(9, 0), HHMM(10, 0)>>, <<HHMM(9, 30), HHMM(9, 45)>> },
      p \in {Absent, Some(3)} }
  \cup { Query(Absent, Some(Tomorrow), Some(HHMM(9, 0)), Some(HHMM(10, 0)), Absent) }

ProbeCreateBodies ==
  { CreateBody(1, Tomorrow, HHMM(9, 0), HHMM(10, 0), 1, Absent),
    CreateBody(1, Tomorrow, HHMM(10, 0), HHMM(11, 0), 1, Some(<<1>>)) }

ProbeNext ==
  \/ \E b \in ProbeCreateBodies : createBooking_open(1, b)
  \/ \E rf, af \in BOOLEAN : createBooking_validate(1, rf, af)
  \/ \E fault \in BOOLEAN : createBooking_create(1, fault)
  \/ \E fault \in BOOLEAN : createBooking_bulkCreate(1, fault)
  \/ \E fault \in BOOLEAN : createBooking_commit(1, fault)
  \/ \E fault \in BOOLEAN : createBooking_respond(1, fault)
  \/ \E q \in ProbeQueries : \E rf, af \in BOOLEAN : checkAvailability(q, rf, af)

ProbeSpec == Init /\ [][ProbeNext]_vars

(***************************************************************************)
(* The pure checks of ValidationUtils, applied to drawn inputs.            *)
(***************************************************************************)
\* Server time zones: Honolulu, New York, UTC, Jakarta, Kiritimati.
TzOffsets == {-10 * 60, -5 * 60, 0, 7 * 60, 14 * 60}

\* Monday 2024-01-08 to Sunday 2024-01-14.
WeekDates == { <<2024, 1, d>> : d \in 8..14 }

\* The time strings: zero-padded HH:MM, H:MM, and strings that are neither
\* ("09:00:00", "24:00", "09:60", "0900", "").
PaddedTimes ==
  { HHMM(h, m) : h \in {0, 7, 8, 9, 15, 16, 17, 18, 19, 23}, m \in {0, 1, 29, 30, 59} }
UnpaddedTimes == { HMM(h, m) : h \in {0, 8, 9}, m \in {0, 30} }
OtherTimes == { HHMMSS(9, 0, 0), HHMM(24, 0), HHMM(9, 60), Pad2(9) \o Pad2(0), <<>> }
TimeStrings == PaddedTimes \cup UnpaddedTimes \cup OtherTimes

HoursInit ==
  /\ tz \in TzOffsets
  /\ now = Noon(Today, 0)
  /\ ret = NoResult
  /\ ServerStart
  /\ arg \in [meetingDate : WeekDates, startTime : TimeStrings, endTime : TimeStrings]

\* ValidationUtils.validateWorkingHours(meetingDate, startTime, endTime)
validateWorkingHours_call ==
  /\ ret = NoResult
  /\ ret' = validateWorkingHours(arg.meetingDate, arg.startTime, arg.endTime, tz)
  /\ UNCHANGED <<envVars, arg, storeVars, reqVars>>

HoursSpec == HoursInit /\ [][validateWorkingHours_call]_vars

\* Dates around the server's clock, across the turn of a year and a leap day.
CalendarDates ==
  { <<2024, 1, d>> : d \in 6..10 } \cup
  { <<2023, 12, 31>>, <<2024, 1, 1>>, <<2024, 2, 29>>, <<2024, 3, 1>> }

\* Instants of the server's clock: 2024-01-08 UTC at 00:00, 03:00, 12:00,
\* 21:00 and 23:59, and 2024-02-29 at 12:00.
Instants ==
  { DateParse(Today) + m : m \in {0, 3 * 60, 12 * 60, 21 * 60, 23 * 60 + 59} }
  \cup { DateParse(<<2024, 2, 29>>) + 12 * 60 }

DateInit ==
  /\ tz \in TzOffsets
  /\ now \in Instants
  /\ ret = NoResult
  /\ ServerStart
  /\ arg \in [meetingDate : CalendarDates, startTime : {<<>>}, endTime : {<<>>}]

\* ValidationUtils.validateFutureDate(meetingDate)
validateFutureDate_call ==
  /\ ret = NoResult
  /\ ret' = validateFutureDate(arg.meetingDate, now, tz)
  /\ UNCHANGED <<envVars, arg, storeVars, reqVars>>

DateSpec == DateInit /\ [][validateFutureDate_call]_vars

\* Room ids with and without a row in meeting_rooms, and participant counts
\* on both sides of 1 and of every capacity.
RoomIdArgs == 0..4
ParticipantArgs == -1..4

CapacityInit ==
  /\ tz = Jakarta
  /\ now = Noon(Today, Jakarta)
  /\ ret = NoResult
  /\ ServerStart
  /\ arg \in [roomId : RoomIdArgs, participants : ParticipantArgs, roomFault : BOOLEAN]

\* ValidationUtils.validateRoomCapacity(roomId, participants)
validateRoomCapacity_call ==
  /\ ret = NoResult
  /\ ret' = validateRoomCapacity(arg.roomId, arg.participants, arg.roomFault)
  /\ UNCHANGED <<envVars, arg, storeVars, reqVars>>

CapacitySpec == CapacityInit /\ [][validateRoomCapacity_call]_vars

(***************************************************************************)
(* Properties of validateWorkingHours (specification HoursSpec) and of      *)
(* validateFutureDate (specification DateSpec).                            *)
(***************************************************************************)
\* The call has returned.
Called == ret # NoResult

\* The date is one the day-of-week sub-check lets through.
WorkingDayDate == getDay(DateParse(arg.meetingDate), tz) \in WORKING_DAYS

\* Day of the week of a calendar date, whatever the server's time zone:
\* 0 = Sunday .. 6 = Saturday (1970-01-01 was a Thursday).
CivilWeekday(ds) == (DaysFromCivil(ds[1], ds[2], ds[3]) + 4) % 7

\* A fixed-width, zero-padded 24-hour HH:MM string.
IsHHMM(s) ==
  /\ Len(s) = 5
  /\ IsDigit(s[1]) /\ IsDigit(s[2]) /\ s[3] = 58 /\ IsDigit(s[4]) /\ IsDigit(s[5])
  /\ (s[1] - 48) * 10 + (s[2] - 48) <= 23
  /\ (s[4] - 48) * 10 + (s[5] - 48) <= 59

\* The time of day, in minutes, that 'H:MM', 'HH:MM' or 'HH:MM:SS' denotes.
TimeOfDay(s) ==
  IF s[2] = 58
  THEN (s[1] - 48) * 60 + (s[3] - 48) * 10 + (s[4] - 48)
  ELSE ((s[1] - 48) * 10 + (s[2] - 48)) * 60 + (s[4] - 48) * 10 + (s[5] - 48)

\* C5: on a working-day date, with two time strings the format sub-check
\* accepts, a start before 08:00 or an end after 18:00 is rejected with
\* OUTSIDE_WORKING_HOURS.
C5_OutsideHoursRejected ==
  ( /\ Called
    /\ WorkingDayDate
    /\ timeRegexTest(arg.startTime) /\ timeRegexTest(arg.endTime)
    /\ (TimeOfDay(arg.startTime) < 8 * 60 \/ TimeOfDay(arg.endTime) > 18 * 60) )
  => ret = Invalid("OUTSIDE_WORKING_HOURS")

\* C6: on a working-day date, the booking from exactly "08:00" to exactly
\* "18:00" passes validateWorkingHours.
C6_FullDayPasses ==
  ( /\ Called
    /\ WorkingDayDate
    /\ arg.startTime = HHMM(8, 0) /\ arg.endTime = HHMM(18, 0) )
  => ret.isValid

\* C6, amended: on a working-day date, the booking from exactly "08:00" to
\* exactly "18:00" is within the working hours (never OUTSIDE_WORKING_HOURS)
\* and fails on its duration of 600 minutes, with INVALID_DURATION_TOO_LONG;
\* a booking that starts exactly at "08:00" or ends exactly at "18:00", lies
\* within 08:00-18:00 and lasts 30 to 480 minutes passes.
C6_BoundariesInclusive ==
  ( /\ Called
    /\ WorkingDayDate
    /\ IsHHMM(arg.startTime) /\ IsHHMM(arg.endTime)
    /\ (arg.startTime = HHMM(8, 0) \/ arg.endTime = HHMM(18, 0))
    /\ TimeOfDay(arg.startTime) >= 8 * 60 /\ TimeOfDay(arg.endTime) <= 18 * 60 )
  => /\ ret.code # "OUTSIDE_WORKING_HOURS"
     /\ (arg.startTime = HHMM(8, 0) /\ arg.endTime = HHMM(18, 0))
          => ret = Invalid("INVALID_DURATION_TOO_LONG")
     /\ ( /\ TimeOfDay(arg.endTime) - TimeOfDay(arg.startTime) >= 30
          /\ TimeOfDay(arg.endTime) - TimeOfDay(arg.startTime) <= 480 )
          => ret = Valid

\* The full working day has been validated and found too long.
C6_FullDayTooLong ==
  /\ Called
  /\ WorkingDayDate
  /\ arg.startTime = HHMM(8, 0) /\ arg.endTime = HHMM(18, 0)
  /\ ret = Invalid("INVALID_DURATION_TOO_LONG")

\* C7: on a working-day date, validateWorkingHours returns
\* INVALID_TIME_FORMAT exactly when startTime or endTime is not a fixed-width,
\* zero-padded HH:MM string.
C7_FormatIsFixedWidth ==
  (Called /\ WorkingDayDate)
  => (ret.code = "INVALID_TIME_FORMAT" <=> ~(IsHHMM(arg.startTime) /\ IsHHMM(arg.endTime)))

\* C8: on a working-day date, with zero-padded times 08:00 <= start < end <=
\* 18:00, the result is INVALID_DURATION_TOO_SHORT exactly below 30 minutes,
\* INVALID_DURATION_TOO_LONG exactly above 480 minutes, and valid otherwise.
C8_DurationBounds ==
  ( /\ Called
    /\ WorkingDayDate
    /\ IsHHMM(arg.startTime) /\ IsHHMM(arg.endTime)
    /\ 8 * 60 <= TimeOfDay(arg.startTime)
    /\ TimeOfDay(arg.startTime) < TimeOfDay(arg.endTime)
    /\ TimeOfDay(arg.endTime) <= 18 * 60 )
  => LET d == TimeOfDay(arg.endTime) - TimeOfDay(arg.startTime)
     IN /\ (ret = Invalid("INVALID_DURATION_TOO_SHORT")) <=> (d < 30)
        /\ (ret = Invalid("INVALID_DURATION_TOO_LONG")) <=> (d > 480)
        /\ (ret = Valid) <=> (d >= 30 /\ d <= 480)

\* 08:00-16:00 (480 minutes) has been validated and passed.
C8_EightHoursPass ==
  /\ Called
  /\ WorkingDayDate
  /\ arg.startTime = HHMM(8, 0) /\ arg.endTime = HHMM(16, 0)
  /\ ret = Valid

\* C9: for every calendar date and every time zone of the server,
\* validateWorkingHours fails with INVALID_WORKING_DAY exactly when the
\* calendar date is a Saturday or a Sunday.
C9_WeekendOfCalendarDate ==
  Called => (ret = Invalid("INVALID_WORKING_DAY") <=> CivilWeekday(arg.meetingDate) \in {0, 6})

\* C10: for every calendar date and every time zone of the server,
\* validateFutureDate fails with INVALID_DATE_PAST exactly when the meeting's
\* calendar date is before the current calendar date of the server's time
\* zone, and passes otherwise.
C10_PastOfLocalCalendar ==
  Called =>
    LET meetingDay == DaysFromCivil(arg.meetingDate[1], arg.meetingDate[2], arg.meetingDate[3])
    IN ret = (IF meetingDay < LocalDay(now, tz) THEN Invalid("INVALID_DATE_PAST") ELSE Valid)

(***************************************************************************)
(* Properties of the booking store and of validateBooking as the handlers  *)
(* call it (specifications Spec and SeqSpec).                              *)
(***************************************************************************)
\* Two different committed bookings of the same room on the same date.
SameRoomAndDate(a, b) ==
  /\ a # b
  /\ bookings[a].meeting_room_id = bookings[b].meeting_room_id
  /\ bookings[a].meeting_date = bookings[b].meeting_date

\* C1: under any interleaving of concurrent requests, the store never holds
\* two distinct bookings of the same room and date with a.start < b.end and
\* a.end > b.start.
C1_NoOverlapConcurrent ==
  \A a, b \in DOMAIN bookings :
    SameRoomAndDate(a, b) =>
      ~( /\ bookings[a].start_time < bookings[b].end_time
         /\ bookings[a].end_time > bookings[b].start_time )

\* C2: with requests handled one at a time from an empty store, two distinct
\* stored bookings of the same room and date have disjoint half-open
\* intervals: one ends no later than the other starts.
C2_NoOverlapSequential ==
  \A a, b \in DOMAIN bookings :
    SameRoomAndDate(a, b) =>
      \/ bookings[a].end_time <= bookings[b].start_time
      \/ bookings[b].end_time <= bookings[a].start_time

\* Two bookings of the same room and date whose endpoints touch are stored.
C2_TouchingCoexist ==
  \E a, b \in DOMAIN bookings :
    SameRoomAndDate(a, b) /\ bookings[a].end_time = bookings[b].start_time

\* The step in which the handler of slot r gets the results of validateBooking.
ValidationStep(r) == results[r] = <<>> /\ results'[r] # <<>>

\* The arguments the handler of slot r passes to validateBooking.
ValidationArgs(r) ==
  IF op[r] = "createBooking"
  THEN [roomId |-> body[r].meeting_room_id[1],
        meetingDate |-> body[r].meeting_date[1],
        startTime |-> body[r].start_time[1],
        endTime |-> body[r].end_time[1],
        participants |-> body[r].total_participants[1],
        excludeId |-> Absent]
  ELSE LET m == Merged(body[r], existing[r][1])
       IN [roomId |-> m.meeting_room_id,
           meetingDate |-> m.meeting_date,
           startTime |-> m.start_time,
           endTime |-> m.end_time,
           participants |-> m.total_participants,
           excludeId |-> body[r].id]

\* The store holds a booking of the room and date, other than the excluded
\* one, that starts before the end and ends after the start.
StoreOverlap(a) ==
  \E id \in DOMAIN bookings :
    /\ bookings[id].meeting_room_id = a.roomId
    /\ bookings[id].meeting_date = a.meetingDate
    /\ (a.excludeId # Absent => id # a.excludeId[1])
    /\ bookings[id].start_time < TimeOfDay(a.endTime)
    /\ bookings[id].end_time > TimeOfDay(a.startTime)

\* C3: validateRoomAvailability, when its query succeeds, returns
\* TIME_CONFLICT if and only if the store holds another booking of the same
\* room and date with b.start < end and b.end > start, and valid otherwise.
C3_ConflictIffOverlap ==
  [][\A r \in Reqs :
       ( /\ ValidationStep(r)
         /\ Len(results'[r]) = 4
         /\ results'[r][4] # Invalid("VALIDATION_ERROR") )
       => results'[r][4] = (IF StoreOverlap(ValidationArgs(r))
                            THEN Invalid("TIME_CONFLICT") ELSE Valid)]_vars

\* An update of a booking to the slot it already occupies has been validated
\* and found available.
C3_UpdateToOwnSlot ==
  \E r \in Reqs :
    /\ op[r] = "updateBooking" /\ pc[r] = "validated"
    /\ body[r].id[1] \in DOMAIN bookings
    /\ body[r].meeting_room_id = Absent /\ body[r].meeting_date = Absent
    /\ bookings[body[r].id[1]].start_time = TimeOfDay(body[r].start_time[1])
    /\ bookings[body[r].id[1]].end_time = TimeOfDay(body[r].end_time[1])
    /\ results[r][4] = Valid

\* C4: whatever the input and whether or not the room lookup and the overlap
\* query fail, validateBooking returns (raises no fault) exactly four results
\* in the order future date, working hours, capacity, availability; a failed
\* room lookup shows as VALIDATION_ERROR in result 3 and a failed overlap
\* query as VALIDATION_ERROR in result 4, the other results being those of
\* the checks without a failure.
C4_FourResultsInOrder ==
  [][\A r \in Reqs :
       ValidationStep(r) =>
         LET a == ValidationArgs(r)
         IN /\ Len(results'[r]) = 4
            /\ results'[r][1] = validateFutureDate(a.meetingDate, now, tz)
            /\ results'[r][2] = validateWorkingHours(a.meetingDate, a.startTime, a.endTime, tz)
            /\ results'[r][3] \in
                 { Invalid("VALIDATION_ERROR"),
                   validateRoomCapacity(a.roomId, a.participants, FALSE) }
            /\ results'[r][4] \in
                 { Invalid("VALIDATION_ERROR"),
                   validateRoomAvailability(a.roomId, a.meetingDate, a.startTime,
                                            a.endTime, a.excludeId, FALSE) }]_vars

\* validateBooking has returned with a failed room lookup in result 3 and
\* the three other checks passed.
C4_RoomLookupFailed ==
  \E r \in Reqs :
    /\ Len(results[r]) = 4
    /\ results[r][1] = Valid /\ results[r][2] = Valid
    /\ results[r][3] = Invalid("VALIDATION_ERROR")
    /\ results[r][4] = Valid

(***************************************************************************)
(* Properties of validateRoomCapacity (specification CapacitySpec).        *)
(***************************************************************************)
\* C11: validateRoomCapacity, when its lookup succeeds, returns
\* ROOM_NOT_FOUND for an id without a room, else ROOM_INACTIVE for a
\* deactivated room, else CAPACITY_EXCEEDED for more participants than the
\* capacity, else INVALID_PARTICIPANTS_COUNT for fewer than 1, else valid;
\* the capacity itself passes and the capacity plus one fails.
C11_CapacityPrecedence ==
  (Called /\ ~arg.roomFault) =>
    /\ arg.roomId \notin DOMAIN MeetingRoom => ret = Invalid("ROOM_NOT_FOUND")
    /\ arg.roomId \in DOMAIN MeetingRoom =>
         LET room == MeetingRoom[arg.roomId]
         IN /\ ~room.is_active => ret = Invalid("ROOM_INACTIVE")
            /\ (room.is_active /\ arg.participants > room.capacity)
                 => ret = Invalid("CAPACITY_EXCEEDED")
            /\ (room.is_active /\ arg.participants <= room.capacity /\ arg.participants < 1)
                 => ret = Invalid("INVALID_PARTICIPANTS_COUNT")
            /\ (room.is_active /\ arg.participants <= room.capacity /\ arg.participants >= 1)
                 => ret = Valid
            /\ (room.is_active /\ arg.participants = room.capacity) => ret.isValid
            /\ (room.is_active /\ arg.participants = room.capacity + 1) => ~ret.isValid

\* As many participants as the room holds have been validated and passed.
C11_FullRoomPasses ==
  /\ Called /\ ~arg.roomFault
  /\ arg.roomId \in DOMAIN MeetingRoom
  /\ MeetingRoom[arg.roomId].is_active
  /\ arg.participants = MeetingRoom[arg.roomId].capacity
  /\ ret = Valid

(***************************************************************************)
(* Properties of the handlers' answers and writes (specification SeqSpec). *)
(***************************************************************************)
\* The step in which createBooking in slot r checks the required fields and
\* runs validateBooking.
CreateCheckStep(r) == op[r] = "createBooking" /\ pc[r] = "open" /\ pc'[r] # "open"

RequiredFields ==
  {"unit_id", "meeting_room_id", "meeting_date", "start_time", "end_time",
   "total_participants"}

\* A step of slot r that writes nothing: the tables and the transaction's
\* pending writes stay as they are.
WritesNothing(r) == UNCHANGED <<bookings, assocs>> /\ wset'[r] = wset[r]

\* C12: createBooking answers MISSING_REQUIRED_FIELDS when one of the six
\* required fields is absent; with all six present it runs the four checks
\* and, if any fails, answers the code of the first failed check with the
\* codes of all failed checks; a rejected request writes no booking row and
\* no association.
C12_CreateRejections ==
  [][\A r \in Reqs :
       CreateCheckStep(r) =>
         IF \E f \in RequiredFields : body[r][f] = Absent
         THEN /\ resp'[r] = Json(400, "MISSING_REQUIRED_FIELDS", <<>>)
              /\ WritesNothing(r)
         ELSE /\ Len(results'[r]) = 4
              /\ LET failed == SelectSeq(results'[r], LAMBDA v : ~v.isValid)
                 IN failed # <<>> =>
                      /\ resp'[r] = Json(400, failed[1].code, Codes(failed))
                      /\ WritesNothing(r)]_vars

\* C13: a createBooking request with all six required fields present and
\* total_participants below 1, for an existing active room and with the
\* other checks passing, is answered INVALID_PARTICIPANTS_COUNT
\* (VALIDATION_ERROR if a store query fails), not a missing-field error.
C13_ZeroParticipantsValidated ==
  [][\A r \in Reqs :
       ( /\ CreateCheckStep(r)
         /\ \A f \in RequiredFields : body[r][f] # Absent
         /\ body[r].total_participants[1] < 1
         /\ body[r].meeting_room_id[1] \in DOMAIN MeetingRoom
         /\ MeetingRoom[body[r].meeting_room_id[1]].is_active
         /\ validateFutureDate(body[r].meeting_date[1], now, tz).isValid
         /\ validateWorkingHours(body[r].meeting_date[1], body[r].start_time[1],
                                 body[r].end_time[1], tz).isValid
         /\ ~StoreOverlap(ValidationArgs(r)) )
       => resp'[r].code \in {"INVALID_PARTICIPANTS_COUNT", "VALIDATION_ERROR"}]_vars

\* The handler in slot r ends on this step (with or without a response).
HandlerEnds(r) ==
  pc[r] \notin {"idle", "unhandled"} /\ pc'[r] \in {"idle", "unhandled"}

\* C14: the handlers are all-or-nothing: the tables change only when a
\* transaction commits, the booking row and its association changes together,
\* and a handler whose transaction has committed ends with a success
\* response; a request that ends in a failure (or with a store step faulting
\* after validation) leaves both tables as they were.
C14_AllOrNothing ==
  [][\A r \in Reqs :
       /\ (tx'[r] # "commit" /\ (\A q \in Reqs \ {r} : tx'[q] = tx[q]))
            => UNCHANGED <<bookings, assocs>>
       /\ (HandlerEnds(r) /\ tx'[r] = "commit") => resp'[r].status \in {200, 201}
       /\ (HandlerEnds(r) /\ resp'[r].status \notin {200, 201}) => tx'[r] # "commit"]_vars

(***************************************************************************)
(* Properties of consumption associations, of deleteBooking and of the     *)
(* stored rows (specification AssocSpec).                                  *)
(***************************************************************************)
\* The step in which the transaction of slot r commits.
CommitStep(r) == tx[r] = "open" /\ tx'[r] = "commit"

\* The association rows of booking id after the step, and those of the other
\* bookings before and after it.
AssocsOfAfter(id) == {a \in assocs' : a[1] = id}
OtherAssocs(id) == {a \in assocs : a[1] # id}
OtherAssocsAfter(id) == {a \in assocs' : a[1] # id}

\* C15: an updateBooking that commits leaves the booking with exactly the
\* supplied consumption ids when consumption_ids is supplied (none for an
\* empty list) and with its previous associations when it is not; the
\* associations of every other booking are unchanged.
C15_UpdateReplacesAssociations ==
  [][\A r \in Reqs :
       (op[r] = "updateBooking" /\ CommitStep(r)) =>
         LET id == body[r].id[1]
         IN /\ AssocsOfAfter(id) =
                 (IF body[r].consumption_ids # Absent
                  THEN {<<id, body[r].consumption_ids[1][i]>> :
                          i \in 1..Len(body[r].consumption_ids[1])}
                  ELSE AssocsOf(id))
            /\ OtherAssocsAfter(id) = OtherAssocs(id)]_vars

\* An update that supplied the single consumption id 3 has committed, the
\* booking has exactly that association and another booking has its own.
C15_ReplacedByThree ==
  \E r \in Reqs :
    /\ op[r] = "updateBooking" /\ pc[r] = "committed"
    /\ body[r].consumption_ids = Some(<<3>>)
    /\ AssocsOf(body[r].id[1]) = {<<body[r].id[1], 3>>}
    /\ \E a \in assocs : a[1] # body[r].id[1]

\* The instant at which a stored booking starts (its date and start time are
\* local time).
StartInstant(id) ==
  DaysFromCivil(bookings[id].meeting_date[1], bookings[id].meeting_date[2],
                bookings[id].meeting_date[3]) * MinutesPerDay
  + bookings[id].start_time - tz

\* C16: deleteBooking of a stored booking that has started is rejected with
\* BOOKING_ALREADY_STARTED (INTERNAL_ERROR if the lookup faults) and changes
\* neither table; a deleteBooking that commits is of a booking that has not
\* started and removes exactly that booking's row and association rows; no
\* association row ever refers to a booking that is not stored.
C16_DeleteStartedRejected ==
  [][/\ \A r \in Reqs :
          /\ ( /\ op[r] = "deleteBooking" /\ pc[r] = "open" /\ pc'[r] # "open"
               /\ body[r].id[1] \in DOMAIN bookings
               /\ StartInstant(body[r].id[1]) < now )
             => /\ resp'[r] \in { Json(400, "BOOKING_ALREADY_STARTED", <<>>),
                                   Json(500, "INTERNAL_ERROR", <<>>) }
                /\ pc'[r] = "idle"
                /\ UNCHANGED <<bookings, assocs>>
          /\ (op[r] = "deleteBooking" /\ CommitStep(r))
             => LET id == body[r].id[1]
                IN /\ id \in DOMAIN bookings
                   /\ StartInstant(id) >= now
                   /\ bookings' = [i \in DOMAIN bookings \ {id} |-> bookings[i]]
                   /\ assocs' = OtherAssocs(id)
     /\ \A a \in assocs' : a[1] \in DOMAIN bookings']_vars

\* A delete has been rejected because the booking had started: it is still
\* stored with its associations, while an earlier booking has been deleted.
C16_StartedBookingKept ==
  \E r \in Reqs :
    /\ op[r] = "deleteBooking"
    /\ resp[r] = Json(400, "BOOKING_ALREADY_STARTED", <<>>)
    /\ \E id \in DOMAIN bookings : StartInstant(id) < now /\ AssocsOf(id) # {}
    /\ \E id \in 1..(nextId - 1) : id \notin DOMAIN bookings

\* C18: every stored booking has start_time < end_time, lies within
\* 08:00-18:00, lasts 30 to 480 minutes and has at least 1 and at most the
\* room's capacity of participants.
C18_StoredBookingsValid ==
  \A id \in DOMAIN bookings :
    LET b == bookings[id]
    IN /\ b.start_time < b.end_time
       /\ 8 * 60 <= b.start_time /\ b.end_time <= 18 * 60
       /\ b.end_time - b.start_time >= 30 /\ b.end_time - b.start_time <= 480
       /\ b.total_participants >= 1
       /\ b.meeting_room_id \in DOMAIN MeetingRoom
       /\ b.total_participants <= MeetingRoom[b.meeting_room_id].capacity

(***************************************************************************)
(* Properties of checkAvailability (specification ProbeSpec).              *)
(***************************************************************************)
\* The step in which checkAvailability answers a query with all four
\* required parameters (arg' holds the query, ret' the response).
ProbeStep == <<arg, ret>>' # <<arg, ret>> /\ ~missingParameters(arg'.query)

\* The arguments checkAvailability hands to the four checks.
ProbeArgs(q) ==
  [roomId |-> q.room_id[1], meetingDate |-> q.date[1],
   startTime |-> q.start_time[1], endTime |-> q.end_time[1],
   participants |-> IF q.participants # Absent THEN q.participants[1] ELSE 1,
   excludeId |-> Absent]

\* The codes of the checks 1 to 3 that fail for these arguments, in order.
FirstThreeFailed(a, roomFault) ==
  Codes(SelectSeq(<< validateFutureDate(a.meetingDate, now, tz),
                     validateWorkingHours(a.meetingDate, a.startTime, a.endTime, tz),
                     validateRoomCapacity(a.roomId, a.participants, roomFault) >>,
                  LAMBDA v : ~v.isValid))

\* C17: checkAvailability never changes the store; its available flag is the
\* outcome of check 4 alone - true exactly when no stored booking of the
\* room and date overlaps the interval (and the overlap query does not fail),
\* whatever checks 1 to 3 say; validationErrors lists every failed check and
\* validationsPassed is true exactly when all four pass.
C17_ProbeReadsAvailability ==
  [][ /\ <<arg, ret>>' # <<arg, ret>> => UNCHANGED <<storeVars, reqVars>>
      /\ ProbeStep =>
           LET a == ProbeArgs(arg'.query)
               free == ~arg'.availFault /\ ~StoreOverlap(a)
               errors == FirstThreeFailed(a, arg'.roomFault) \o
                         (IF free THEN <<>>
                          ELSE IF arg'.availFault THEN <<"VALIDATION_ERROR">>
                          ELSE <<"TIME_CONFLICT">>)
           IN /\ ret'.status = 200 /\ ret'.data # Absent
              /\ ret'.data[1].available = free
              /\ ret'.data[1].validationErrors = errors
              /\ ret'.data[1].validationsPassed = (errors = <<>>) ]_vars

\* A probe of a free slot of a missing room on a past date has answered
\* available with the failed checks listed, next to a stored booking.
C17_FreeSlotOfInvalidRequest ==
  /\ bookings # <<>>
  /\ ret = ProbeJson(200, "none",
             Some([available |-> TRUE, validationsPassed |-> FALSE,
                   validationErrors |-> <<"INVALID_DATE_PAST", "ROOM_NOT_FOUND">>]))

(***************************************************************************)
(* Properties of the handlers' transactions and responses.                 *)
(***************************************************************************)
\* C19: the transaction a handler opened is committed or rolled back when
\* the handler ends, on every path including the early rejections, and the
\* handler does not reach its catch block (which rolls back) with a
\* transaction that is already committed.
C19_TransactionFinishedOnce ==
  [][\A r \in Reqs :
       HandlerEnds(r) =>
         /\ tx'[r] \in {"commit", "rollback"}
         /\ tx[r] = "commit" => (pc'[r] = "idle" /\ resp'[r].status # 500)]_vars

\* C20: a handler that ends has answered its request, whatever store step
\* failed: it does not end with its promise rejected and no response sent.
C20_EveryRequestAnswered ==
  [][\A r \in Reqs :
       HandlerEnds(r) => (pc'[r] # "unhandled" /\ resp'[r] # NoResponse)]_vars

====
